---- MODULE Spec2Model ----
(***************************************************************************)
(* In-memory trace buffering of mlflow-tracing-ts: the trace registry      *)
(* (InMemoryTraceManager over a NodeCache), the span lifecycle processor   *)
(* (MlflowSpanProcessor.onStart / onEnd), the exporter hand-off            *)
(* (MlflowSpanExporter.export) and the public startSpan / LiveSpan.end.    *)
(*                                                                         *)
(* The specifications share the state:                                     *)
(*   Spec          application code drives the system through startSpan    *)
(*                 and LiveSpan.end, time passes, the cache timer sweeps;  *)
(*   SpecRegistry  the registry's methods are called directly, in any      *)
(*                 order, for trace ids made by generateTraceId;           *)
(*   SpecDedup     deduplicateSpanNamesInPlace on sequences of spans;      *)
(*   SpecLiveSpan  one LiveSpan, its setters and end() in any order;       *)
(*   SpecEntities  createMlflowSpan's variants, the attribute registries   *)
(*                 and the JSON form of a span;                            *)
(*   SpecWide      as Spec, with a buffer that has room for two traces.    *)
(***************************************************************************)
EXTENDS Integers, Sequences, FiniteSets, TLC

(* ---------------------------- bounds ----------------------------------- *)
\* MLFLOW_TRACE_BUFFER_MAX_SIZE (default 1000), scaled down
maxTraces == 1
\* MLFLOW_TRACE_BUFFER_TTL_SECONDS (default 3600), scaled down
ttlSeconds == 1
\* live spans the application holds
MaxSpans == 2
\* spans a caller of the registry makes
MaxRegistrySpans == 1
\* seconds the clock runs
MaxClock == 2
\* spans in a sequence given to the name deduplication
MaxDedupLen == 6

\* one more underlying trace id than the buffer holds, so that it overflows
OtelIds == 1 .. (maxTraces + 1)
\* the instrumented operations of the application: the name and inputs a
\* span is started with, the outputs and status it is ended with
\* (attributes: the value v of end's options.attributes = {custom: v})
Calls == {[name |-> <<"a">>, inputs |-> "{}", outputs |-> "undefined",
           attributes |-> "undefined", status |-> "undefined"],
          [name |-> <<"b">>, inputs |-> "undefined", outputs |-> "1",
           attributes |-> "x", status |-> "ERROR"]}

(* --------------------------- constants --------------------------------- *)
TRACE_ID_PREFIX == "tr-"
\* span.parentSpanContext is undefined
NoParent == 0
MsPerSecond == 1000
NsPerMs == 1000000

(* ------------------------------ state ---------------------------------- *)
VARIABLES
  clock,                  \* wall clock, in seconds; Date.now() = clock * 1000
  traces,                 \* InMemoryTraceManager._traces (NodeCache data)
  otelIdToMlflowTraceId,  \* InMemoryTraceManager._otelIdToMlflowTraceId
  spans,                  \* the span objects the application holds, by span id
  exported,               \* traces handed to exportTraceToBackend, in order
  registered,             \* history: span ids stored by registerSpan, per trace id
  expiredLog,             \* history: keys for which the cache emitted 'expired'
  lastOp                  \* history: the last operation, its arguments and outcome

vars == <<clock, traces, otelIdToMlflowTraceId, spans, exported, registered,
          expiredLog, lastOp>>

Now == clock * MsPerSecond

(* ------------------- insertion-ordered Map<K, V> ----------------------- *)
\* a JavaScript Map, as the sequence of its <<key, value>> entries
MapKeys(m) == {m[i][1] : i \in DOMAIN m}
MapValues(m) == {m[i][2] : i \in DOMAIN m}
MapHas(m, k) == k \in MapKeys(m)
MapGet(m, k) == (CHOOSE i \in DOMAIN m : m[i][1] = k)
MapValue(m, k) == m[MapGet(m, k)][2]
MapSet(m, k, v) ==
  IF MapHas(m, k)
    THEN [i \in DOMAIN m |-> IF m[i][1] = k THEN <<k, v>> ELSE m[i]]
    ELSE Append(m, <<k, v>>)
\* mutant: Map.delete that deletes nothing
MapDeleteKeep(m, k) == m
MapDelete(m, k) == SelectSeq(m, LAMBDA e : e[1] # k)

\* the sequence s without its i-th element
RemoveAt(s, i) == SubSeq(s, 1, i - 1) \o SubSeq(s, i + 1, Len(s))

(* ------------------------------ ids ------------------------------------ *)
\* mutant: the trace id does not depend on the underlying id
generateTraceIdConstant(otelTraceId) == <<TRACE_ID_PREFIX, 1>>
generateTraceId(otelTraceId) == <<TRACE_ID_PREFIX, otelTraceId>>
TraceIds == {generateTraceId(o) : o \in OtelIds}

\* what a lookup that finds nothing returns (null / undefined)
Null == <<>>
\* an attribute that was never set
Undefined == "undefined"

(* --------------------------- NodeCache --------------------------------- *)
\* the cache holds key -> [v: the stored value (by reference, useClones is
\* false), t: the time in ms after which the key is expired]
Remove(tr, keys) == [k \in DOMAIN tr \ keys |-> tr[k]]

\* NodeCache._check: a key is expired once its time has passed
Overdue(entry, now) == entry.t # 0 /\ entry.t < now

\* mutant: no 'expired' listener is installed
ExpiredHandlerNone(mp, key) == mp

\* the 'expired' listener: drop the first id mapping that points to the key
ExpiredHandler(mp, key) ==
  IF key \in MapValues(mp)
    THEN RemoveAt(mp, CHOOSE i \in DOMAIN mp :
                        /\ mp[i][2] = key
                        /\ \A j \in 1 .. (i - 1) : mp[j][2] # key)
    ELSE mp

\* mutant: deleteOnExpire is off, an expired key is reported and still served
CacheGetKeepExpired(tr, mp, key, now) ==
  IF key \notin DOMAIN tr
    THEN [found |-> FALSE, traces |-> tr, map |-> mp, expired |-> {}]
    ELSE [found |-> TRUE, val |-> tr[key].v, traces |-> tr, map |-> mp,
          expired |-> IF Overdue(tr[key], now) THEN {key} ELSE {}]

\* NodeCache.get: an expired key is deleted (deleteOnExpire), 'expired' is
\* emitted, and the lookup misses
CacheGet(tr, mp, key, now) ==
  IF key \notin DOMAIN tr
    THEN [found |-> FALSE, traces |-> tr, map |-> mp, expired |-> {}]
  ELSE IF Overdue(tr[key], now)
    THEN [found |-> FALSE, traces |-> Remove(tr, {key}),
          map |-> ExpiredHandler(mp, key), expired |-> {key}]
  ELSE [found |-> TRUE, val |-> tr[key].v, traces |-> tr, map |-> mp,
        expired |-> {}]

\* mutant: no maxKeys, the cache never refuses a key
CacheSetUnbounded(tr, key, val, now) ==
  [threw |-> FALSE,
   traces |-> [k \in DOMAIN tr \cup {key} |->
                 IF k = key
                   THEN [v |-> val, t |-> now + ttlSeconds * MsPerSecond]
                   ELSE tr[k]]]

\* NodeCache.set: throws ECACHEFULL when the cache holds maxKeys keys,
\* otherwise stores the value with a new expiry time
CacheSet(tr, key, val, now) ==
  IF Cardinality(DOMAIN tr) >= maxTraces
    THEN [threw |-> TRUE, traces |-> tr]
    ELSE [threw |-> FALSE,
          traces |-> [k \in DOMAIN tr \cup {key} |->
                        IF k = key
                          THEN [v |-> val, t |-> now + ttlSeconds * MsPerSecond]
                          ELSE tr[k]]]

\* mutant: NodeCache.del that deletes nothing
CacheDelKeep(tr, key) == tr

\* mutant: NodeCache.del that empties the cache
CacheDelAll(tr, key) == <<>>

\* NodeCache.del
CacheDel(tr, key) == Remove(tr, {key})

RECURSIVE ExpireAll(_, _)
ExpireAll(mp, keys) ==
  IF keys = {} THEN mp
  ELSE LET k == CHOOSE x \in keys : TRUE
       IN ExpireAll(ExpiredHandler(mp, k), keys \ {k})

\* NodeCache._checkData, the periodic sweep (checkperiod): every expired key
\* is deleted and 'expired' is emitted for it
CacheCheckData(tr, mp, now) ==
  LET dead == {k \in DOMAIN tr : Overdue(tr[k], now)}
  IN [traces |-> Remove(tr, dead), map |-> ExpireAll(mp, dead), expired |-> dead]

(* ----------------------- InMemoryTraceManager -------------------------- *)
\* new _Trace(info)
NewTrace(info) == [info |-> info, spanDict |-> <<>>]

\* mutant: the span replaces the spans stored before it
SpanDictSetReplace(spanDict, spanId) == <<spanId>>

\* mutant: a new span goes first
SpanDictSetFirst(spanDict, spanId) ==
  IF \E i \in DOMAIN spanDict : spanDict[i] = spanId
    THEN spanDict
    ELSE <<spanId>> \o spanDict

\* Map.set(span.spanId, span): a new key goes last, a known key keeps its place
SpanDictSet(spanDict, spanId) ==
  IF \E i \in DOMAIN spanDict : spanDict[i] = spanId
    THEN spanDict
    ELSE Append(spanDict, spanId)

\* mutant: the mapping is written before the cache is
registerTraceMapFirst(tr, mp, otelTraceId, traceInfo, now) ==
  LET s == CacheSet(tr, traceInfo.traceId, NewTrace(traceInfo), now)
  IN [threw |-> s.threw, traces |-> IF s.threw THEN tr ELSE s.traces,
      map |-> MapSet(mp, otelTraceId, traceInfo.traceId)]

registerTrace(tr, mp, otelTraceId, traceInfo, now) ==
  LET s == CacheSet(tr, traceInfo.traceId, NewTrace(traceInfo), now)
  IN IF s.threw
       THEN [threw |-> TRUE, traces |-> tr, map |-> mp]
       ELSE [threw |-> FALSE, traces |-> s.traces,
             map |-> MapSet(mp, otelTraceId, traceInfo.traceId)]

\* mutant: a span whose trace has no entry gets a new entry made for it
registerSpanResurrect(tr, mp, traceId, spanId, now) ==
  LET g == CacheGet(tr, mp, traceId, now)
      trace == IF g.found THEN g.val
               ELSE NewTrace([traceId |-> traceId, requestTime |-> now,
                              executionDuration |-> 0, state |-> "IN_PROGRESS",
                              requestPreview |-> "undefined",
                              responsePreview |-> "undefined"])
      entry == [v |-> [trace EXCEPT !.spanDict = SpanDictSet(@, spanId)],
                t |-> IF g.found THEN g.traces[traceId].t
                      ELSE now + ttlSeconds * MsPerSecond]
  IN [stored |-> TRUE,
      traces |-> [k \in DOMAIN g.traces \cup {traceId} |->
                    IF k = traceId THEN entry ELSE g.traces[k]],
      map |-> g.map, expired |-> g.expired]

\* mutant: storing a span writes the entry back, which restarts its TTL
registerSpanTouch(tr, mp, traceId, spanId, now) ==
  LET g == CacheGet(tr, mp, traceId, now)
  IN IF g.found
       THEN [stored |-> TRUE,
             traces |-> [g.traces EXCEPT
                           ![traceId] =
                              [v |-> [g.val EXCEPT !.spanDict = SpanDictSet(@, spanId)],
                               t |-> now + ttlSeconds * MsPerSecond]],
             map |-> g.map, expired |-> g.expired]
       ELSE [stored |-> FALSE, traces |-> g.traces, map |-> g.map,
             expired |-> g.expired]

registerSpan(tr, mp, traceId, spanId, now) ==
  LET g == CacheGet(tr, mp, traceId, now)
  IN IF g.found
       THEN [stored |-> TRUE,
             traces |-> [g.traces EXCEPT ![traceId].v.spanDict =
                                            SpanDictSet(@, spanId)],
             map |-> g.map, expired |-> g.expired]
       ELSE [stored |-> FALSE, traces |-> g.traces, map |-> g.map,
             expired |-> g.expired]

getTrace(tr, mp, traceId, now) == CacheGet(tr, mp, traceId, now)

getMlflowTraceIdFromOtelId(mp, otelTraceId) ==
  IF MapHas(mp, otelTraceId) THEN MapValue(mp, otelTraceId) ELSE Null

\* mutant: the spans are pushed last to first
toMlflowTraceReversed(trace, sp) ==
  LET n == Len(trace.spanDict)
      data == [i \in 1 .. n |-> trace.spanDict[n + 1 - i]]
      roots == {i \in DOMAIN data : sp[data[i]].parent = NoParent}
      root == sp[data[CHOOSE i \in roots : \A j \in roots : i <= j]]
      info == IF roots = {} THEN trace.info
              ELSE [trace.info EXCEPT
                      !.requestPreview =
                         IF root.inputs = Undefined THEN "" ELSE root.inputs,
                      !.responsePreview =
                         IF root.outputs = Undefined THEN "" ELSE root.outputs]
  IN [info |-> info, spans |-> data]

\* mutant: the previews come from the first span, root or not
toMlflowTraceFirstSpan(trace, sp) ==
  LET data == trace.spanDict
      root == sp[data[1]]
      info == IF data = <<>> THEN trace.info
              ELSE [trace.info EXCEPT
                      !.requestPreview =
                         IF root.inputs = Undefined THEN "" ELSE root.inputs,
                      !.responsePreview =
                         IF root.outputs = Undefined THEN "" ELSE root.outputs]
  IN [info |-> info, spans |-> data]

\* _Trace.toMlflowTrace: the spans in spanDict order; the previews come from
\* the first span without a parent, if there is one
toMlflowTrace(trace, sp) ==
  LET data == trace.spanDict
      roots == {i \in DOMAIN data : sp[data[i]].parent = NoParent}
      root == sp[data[CHOOSE i \in roots : \A j \in roots : i <= j]]
      info == IF roots = {} THEN trace.info
              ELSE [trace.info EXCEPT
                      !.requestPreview =
                         IF root.inputs = Undefined THEN "" ELSE root.inputs,
                      !.responsePreview =
                         IF root.outputs = Undefined THEN "" ELSE root.outputs]
  IN [info |-> info, spans |-> data]

popTrace(tr, mp, otelTraceId, now, sp) ==
  IF ~MapHas(mp, otelTraceId)
    THEN [found |-> FALSE, traces |-> tr, map |-> mp, expired |-> {}]
  ELSE LET mlflowTraceId == MapValue(mp, otelTraceId)
           g == CacheGet(tr, MapDelete(mp, otelTraceId), mlflowTraceId, now)
       IN IF g.found
            THEN [found |-> TRUE, trace |-> toMlflowTrace(g.val, sp),
                  traces |-> CacheDel(g.traces, mlflowTraceId),
                  map |-> g.map, expired |-> g.expired]
            ELSE [found |-> FALSE, traces |-> g.traces, map |-> g.map,
                  expired |-> g.expired]

(* ------------------------------ spans ---------------------------------- *)
\* an HrTime is <<seconds, nanoseconds>>; the time the tracing SDK stamps on a
\* span that is started or ended now
NowHrTime == <<Now \div MsPerSecond, (Now % MsPerSecond) * NsPerMs>>

\* convertHrTimeToNanoSeconds(hrTime) / 1e6: the nanosecond count
\* hrTime[0] * 1e9 + hrTime[1] in milliseconds, computed per component (the
\* count itself exceeds the integers of the checker)
HrTimeToMs(hrTime) == hrTime[1] * MsPerSecond + hrTime[2] \div NsPerMs

\* mutant: no span is seen to have a parent
HasParentNever(span) == FALSE

\* span.parentSpanContext is set
HasParent(span) == span.parent # NoParent

\* TraceState.fromOtelStatus
fromOtelStatus(code) ==
  IF code = "OK" THEN "OK"
  ELSE IF code = "ERROR" THEN "ERROR"
  ELSE "STATE_UNSPECIFIED"

\* the second loop of deduplicateSpanNamesInPlace: a span whose name has an
\* index gets name_index, and the index of that name moves on
RECURSIVE DedupLoop(_, _, _, _)
DedupLoop(ids, i, spanNameIndexes, sp) ==
  IF i > Len(ids) THEN sp
  ELSE LET name == sp[ids[i]].name
       IN IF name \in DOMAIN spanNameIndexes
            THEN DedupLoop(ids, i + 1,
                           [spanNameIndexes EXCEPT ![name] = @ + 1],
                           [sp EXCEPT ![ids[i]].name =
                                        Append(name, spanNameIndexes[name])])
            ELSE DedupLoop(ids, i + 1, spanNameIndexes, sp)

\* mutant: the suffixes start at 0
deduplicateSpanNamesFromZero(ids, sp) ==
  LET spanNameCounter(name) ==
        Cardinality({i \in DOMAIN ids : sp[ids[i]].name = name})
      duplicated == {n \in {sp[ids[i]].name : i \in DOMAIN ids} :
                       spanNameCounter(n) > 1}
  IN DedupLoop(ids, 1, [n \in duplicated |-> 0], sp)

\* ids: the spans of one trace, in order; a name is a sequence, and
\* Append(name, k) is the string name + "_" + k
deduplicateSpanNamesInPlace(ids, sp) ==
  LET spanNameCounter(name) ==
        Cardinality({i \in DOMAIN ids : sp[ids[i]].name = name})
      duplicated == {sp[ids[i]].name : i \in DOMAIN ids}
                      \cap {n \in {sp[ids[i]].name : i \in DOMAIN ids} :
                              spanNameCounter(n) > 1}
  IN DedupLoop(ids, 1, [n \in duplicated |-> 1], sp)

(* --------------------- MlflowSpanProcessor / exporter ------------------ *)
\* mutant: the request time is left in seconds
NewTraceInfoSeconds(traceId, span) ==
  [traceId |-> traceId,
   requestTime |-> span.startTime[1],
   executionDuration |-> 0,
   state |-> "IN_PROGRESS",
   requestPreview |-> Undefined,
   responsePreview |-> Undefined]

NewTraceInfo(traceId, span) ==
  [traceId |-> traceId,
   requestTime |-> HrTimeToMs(span.startTime),
   executionDuration |-> 0,
   state |-> "IN_PROGRESS",
   requestPreview |-> Undefined,
   responsePreview |-> Undefined]

\* mutant: a span whose underlying trace id has no mapping starts a trace
onStartAdopt(tr, mp, span, now) ==
  IF ~HasParent(span) \/ getMlflowTraceIdFromOtelId(mp, span.otel) = Null
    THEN LET traceId == generateTraceId(span.otel)
             r == registerTrace(tr, mp, span.otel, NewTraceInfo(traceId, span), now)
         IN IF r.threw
              THEN [threw |-> TRUE, traceId |-> Null, traces |-> r.traces,
                    map |-> r.map]
              ELSE [threw |-> FALSE, traceId |-> traceId, traces |-> r.traces,
                    map |-> r.map]
    ELSE [threw |-> FALSE, traceId |-> getMlflowTraceIdFromOtelId(mp, span.otel),
          traces |-> tr, map |-> mp]

\* traceId is the id stamped on the span, Null when the span is skipped
onStart(tr, mp, span, now) ==
  IF ~HasParent(span)
    THEN LET traceId == generateTraceId(span.otel)
             r == registerTrace(tr, mp, span.otel, NewTraceInfo(traceId, span), now)
         IN IF r.threw
              THEN [threw |-> TRUE, traceId |-> Null, traces |-> r.traces,
                    map |-> r.map]
              ELSE [threw |-> FALSE, traceId |-> traceId, traces |-> r.traces,
                    map |-> r.map]
    ELSE [threw |-> FALSE, traceId |-> getMlflowTraceIdFromOtelId(mp, span.otel),
          traces |-> tr, map |-> mp]

\* mutant: the duration is updated, the state is left as it was
updateTraceInfoKeepState(traceInfo, span) ==
  [traceInfo EXCEPT
     !.executionDuration = HrTimeToMs(span.endTime) - traceInfo.requestTime]

updateTraceInfo(traceInfo, span) ==
  [traceInfo EXCEPT
     !.executionDuration =
        HrTimeToMs(span.endTime) - traceInfo.requestTime,
     !.state = fromOtelStatus(span.status)]

\* MlflowSpanExporter.export([span]): out holds the traces handed to
\* exportTraceToBackend
export(tr, mp, sp, spanId, now) ==
  IF HasParent(sp[spanId])
    THEN [traces |-> tr, map |-> mp, expired |-> {}, out |-> <<>>]
    ELSE LET p == popTrace(tr, mp, sp[spanId].otel, now, sp)
         IN [traces |-> p.traces, map |-> p.map, expired |-> p.expired,
             out |-> IF p.found THEN <<p.trace>> ELSE <<>>]

\* mutant: the end of a span with a parent is not told apart
onEndAnySpan(tr, mp, sp, spanId, now, later) ==
  LET traceId == sp[spanId].traceId
      g == getTrace(tr, mp, traceId, now)
  IN IF ~g.found
       THEN [traces |-> g.traces, map |-> g.map, spans |-> sp,
             expired |-> g.expired, out |-> <<>>, deduplicated |-> FALSE]
       ELSE LET tr1 == [g.traces EXCEPT ![traceId].v.info =
                                          updateTraceInfo(@, sp[spanId])]
                e == export(tr1, g.map, sp, spanId, later)
            IN [traces |-> e.traces, map |-> e.map, spans |-> sp,
                expired |-> e.expired, out |-> e.out, deduplicated |-> FALSE]

\* mutant: the names are deduplicated at the end of a span with a parent too
onEndDedupOnChild(tr, mp, sp, spanId, now, later) ==
  LET traceId == sp[spanId].traceId
  IN IF HasParent(sp[spanId])
       THEN [traces |-> tr, map |-> mp,
             spans |-> IF traceId \in DOMAIN tr
                         THEN deduplicateSpanNamesInPlace(tr[traceId].v.spanDict, sp)
                         ELSE sp,
             expired |-> {}, out |-> <<>>, deduplicated |-> TRUE]
       ELSE LET g == getTrace(tr, mp, traceId, now)
            IN IF ~g.found
                 THEN [traces |-> g.traces, map |-> g.map, spans |-> sp,
                       expired |-> g.expired, out |-> <<>>,
                       deduplicated |-> FALSE]
                 ELSE LET tr1 == [g.traces EXCEPT ![traceId].v.info =
                                                    updateTraceInfo(@, sp[spanId])]
                          sp1 == deduplicateSpanNamesInPlace(g.val.spanDict, sp)
                          e == export(tr1, g.map, sp1, spanId, later)
                      IN [traces |-> e.traces, map |-> e.map, spans |-> sp1,
                          expired |-> e.expired, out |-> e.out,
                          deduplicated |-> TRUE]

\* now is the time of the lookup, later the time of the pop
onEnd(tr, mp, sp, spanId, now, later) ==
  IF HasParent(sp[spanId])
    THEN [traces |-> tr, map |-> mp, spans |-> sp, expired |-> {}, out |-> <<>>,
          deduplicated |-> FALSE]
    ELSE LET traceId == sp[spanId].traceId
             g == getTrace(tr, mp, traceId, now)
         IN IF ~g.found
              THEN [traces |-> g.traces, map |-> g.map, spans |-> sp,
                    expired |-> g.expired, out |-> <<>>, deduplicated |-> FALSE]
              ELSE LET tr1 == [g.traces EXCEPT ![traceId].v.info =
                                                 updateTraceInfo(@, sp[spanId])]
                       sp1 == deduplicateSpanNamesInPlace(g.val.spanDict, sp)
                       e == export(tr1, g.map, sp1, spanId, later)
                   IN [traces |-> e.traces, map |-> e.map, spans |-> sp1,
                       expired |-> e.expired, out |-> e.out,
                       deduplicated |-> TRUE]

(* ------------------------------ startSpan / end ------------------------ *)
\* the span the tracer creates for the operation `call`: a span without a
\* parent gets a new underlying trace id, a child inherits its parent's
NewSpan(otel, parent, call) ==
  [otel |-> otel, parent |-> parent, traceId |-> Null, name |-> call.name,
   status |-> "UNSET", ended |-> FALSE, startTime |-> NowHrTime,
   endTime |-> <<0, 0>>, inputs |-> Undefined, outputs |-> Undefined,
   custom |-> Undefined, call |-> call]

Op(op, span, otel, trace, res) ==
  [op |-> op, span |-> span, otel |-> otel, trace |-> trace, res |-> res]

Init ==
  /\ clock = 0
  /\ traces = <<>>
  /\ otelIdToMlflowTraceId = <<>>
  /\ spans = <<>>
  /\ exported = <<>>
  /\ registered = [t \in TraceIds |-> {}]
  /\ expiredLog = {}
  /\ lastOp = Op("init", 0, 0, Null, "")

UsedOtelIds == {spans[s].otel : s \in DOMAIN spans}

\* startSpan({name, inputs}) with the span `parent` active (NoParent: none)
StartSpan(parent, call) ==
  /\ parent = NoParent => OtelIds \ UsedOtelIds # {}
  /\ LET spanId == Len(spans) + 1
         otel == IF parent = NoParent
                   THEN CHOOSE o \in OtelIds \ UsedOtelIds :
                          \A x \in OtelIds \ UsedOtelIds : o <= x
                   ELSE spans[parent].otel
         otel_span == NewSpan(otel, parent, call)
         s == onStart(traces, otelIdToMlflowTraceId, otel_span, Now)
     IN IF s.threw \/ s.traceId = Null
          \* onStart threw, or JSON.parse of the missing trace id attribute
          \* threw: startSpan catches it and returns a NoOpSpan
          THEN /\ lastOp' = Op("startSpan", 0, otel, Null,
                               IF s.threw THEN "NoOpSpan:full" ELSE "NoOpSpan:skipped")
               /\ traces' = s.traces
               /\ otelIdToMlflowTraceId' = s.map
               /\ UNCHANGED <<clock, spans, exported, registered, expiredLog>>
          ELSE LET mlflow_span == [otel_span EXCEPT !.traceId = s.traceId,
                                                    !.inputs = call.inputs]
                   r == registerSpan(s.traces, s.map, s.traceId, spanId, Now)
               IN /\ Len(spans) < MaxSpans
                  /\ spans' = Append(spans, mlflow_span)
                  /\ traces' = r.traces
                  /\ otelIdToMlflowTraceId' = r.map
                  /\ registered' = IF r.stored
                                     THEN [registered EXCEPT ![s.traceId] = @ \cup {spanId}]
                                     ELSE registered
                  /\ expiredLog' = expiredLog \cup r.expired
                  /\ lastOp' = Op("startSpan", spanId, otel, s.traceId,
                                  IF r.stored THEN "LiveSpan" ELSE "LiveSpan:dropped")
                  /\ UNCHANGED <<clock, exported>>

\* a value JSON.stringify throws on (a cyclic object, a BigInt)
Unserializable == "circular"

\* _SpanAttributesRegistry.set: JSON.stringify(value) throws
SetThrows(value) == value = Unserializable

\* the tracing SDK's Span.setAttribute, setStatus and end: each does nothing
\* on a span that has ended
OtelSetAttribute(span, key, value) ==
  IF span.ended THEN span ELSE [span EXCEPT ![key] = value]

OtelSetStatus(span, status) ==
  IF span.ended THEN span ELSE [span EXCEPT !.status = status]

\* mutant: the end of an ended span sets the end time again
OtelEndAgain(span, now) == [span EXCEPT !.endTime = now, !.ended = TRUE]

OtelEnd(span, now) ==
  IF span.ended THEN span ELSE [span EXCEPT !.endTime = now, !.ended = TRUE]

\* a status that is neither a SpanStatus nor a string (a number)
InvalidStatus == "0"

\* mutant: the underlying span is ended before the options are applied
LiveSpanEndFirst(span, options, now) ==
  IF options.outputs # Undefined /\ SetThrows(options.outputs)
    THEN [threw |-> TRUE, span |-> span]
    ELSE LET s0 == OtelEnd(span, now)
             s1 == IF options.outputs # Undefined
                     THEN OtelSetAttribute(s0, "outputs", options.outputs)
                     ELSE s0
             s2 == IF options.attributes # Undefined
                     THEN OtelSetAttribute(s1, "custom", options.attributes)
                     ELSE s1
             s3 == IF options.status # Undefined
                     THEN OtelSetStatus(s2, options.status)
                     ELSE s2
         IN [threw |-> FALSE,
             span |-> IF s3.status # "ERROR" THEN OtelSetStatus(s3, "OK")
                      ELSE s3]

\* LiveSpan.end(options): the outputs, the attributes and the status are
\* applied, a status other than ERROR becomes OK, the underlying span is
\* ended; a setter that throws leaves what was applied before it and the
\* span not ended
LiveSpanEnd(span, options, now) ==
  IF options.outputs # Undefined /\ SetThrows(options.outputs)
    THEN [threw |-> TRUE, span |-> span]
    ELSE LET s1 == IF options.outputs # Undefined
                     THEN OtelSetAttribute(span, "outputs", options.outputs)
                     ELSE span
         IN IF options.attributes # Undefined /\ SetThrows(options.attributes)
              THEN [threw |-> TRUE, span |-> s1]
              ELSE LET s2 == IF options.attributes # Undefined
                               THEN OtelSetAttribute(s1, "custom",
                                                     options.attributes)
                               ELSE s1
                   IN IF options.status = InvalidStatus
                        THEN [threw |-> TRUE, span |-> s2]
                        ELSE LET s3 == IF options.status # Undefined
                                         THEN OtelSetStatus(s2, options.status)
                                         ELSE s2
                                 s4 == IF s3.status # "ERROR"
                                         THEN OtelSetStatus(s3, "OK")
                                         ELSE s3
                             IN [threw |-> FALSE, span |-> OtelEnd(s4, now)]

\* the options end() is called with: those of the operation the span was
\* started for, or the same with outputs that cannot be serialized; a
\* repeated end() may pass the options of any operation
EndOptions(span) ==
  IF span.ended THEN Calls
  ELSE {span.call, [span.call EXCEPT !.outputs = Unserializable]}

\* span.end(options); the processor's onEnd runs only when the underlying
\* span had not ended before; the clock may move by d between onEnd's lookup
\* of the trace and the exporter's pop
EndSpan(spanId, options, d) ==
  /\ spanId \in DOMAIN spans
  /\ options \in EndOptions(spans[spanId])
  /\ clock + d <= MaxClock
  /\ LET s0 == spans[spanId]
         l == LiveSpanEnd(s0, options, NowHrTime)
     IN IF l.threw \/ s0.ended
          THEN /\ d = 0
               /\ spans' = [spans EXCEPT ![spanId] = l.span]
               /\ lastOp' = Op("end", spanId, s0.otel, s0.traceId,
                               IF l.threw THEN "threw:outputs" ELSE "ignored")
               /\ UNCHANGED <<clock, traces, otelIdToMlflowTraceId, exported,
                              registered, expiredLog>>
          ELSE /\ HasParent(s0) => d = 0
               /\ LET e == onEnd(traces, otelIdToMlflowTraceId,
                                 [spans EXCEPT ![spanId] = l.span],
                                 spanId, Now, (clock + d) * MsPerSecond)
                  IN /\ spans' = e.spans
                     /\ traces' = e.traces
                     /\ otelIdToMlflowTraceId' = e.map
                     /\ exported' = exported \o e.out
                     /\ expiredLog' = expiredLog \cup e.expired
                     /\ clock' = clock + d
                     /\ lastOp' = Op("end", spanId, s0.otel, s0.traceId,
                                     IF e.out # <<>> THEN "exported"
                                     ELSE IF HasParent(s0) THEN "child"
                                     ELSE "skipped")
                     /\ UNCHANGED registered

\* a second passes
Tick ==
  /\ clock < MaxClock
  /\ clock' = clock + 1
  /\ lastOp' = Op("tick", 0, 0, Null, "")
  /\ UNCHANGED <<traces, otelIdToMlflowTraceId, spans, exported, registered, expiredLog>>

\* the cache's check timer fires between two operations of the application
Sweep ==
  /\ LET c == CacheCheckData(traces, otelIdToMlflowTraceId, Now)
     IN /\ c.expired # {}
        /\ traces' = c.traces
        /\ otelIdToMlflowTraceId' = c.map
        /\ expiredLog' = expiredLog \cup c.expired
  /\ lastOp' = Op("sweep", 0, 0, Null, "")
  /\ UNCHANGED <<clock, spans, exported, registered>>

Next ==
  \/ \E parent \in {NoParent} \cup DOMAIN spans, call \in Calls :
        StartSpan(parent, call)
  \/ \E spanId \in DOMAIN spans, d \in {0, 1} :
        \E options \in EndOptions(spans[spanId]) : EndSpan(spanId, options, d)
  \/ Tick
  \/ Sweep

Spec == Init /\ [][Next]_vars

(* ----------------- the registry, called directly ----------------------- *)
\* the underlying ids and trace ids a caller of the registry uses
RegistryOtelIds == {1, 2}
RegistryTraceIds == {generateTraceId(o) : o \in RegistryOtelIds}

\* the parent of a span a caller makes: none, or a span the registry has never seen
RegistryParents == {NoParent, MaxRegistrySpans + 1}

\* the operation a caller's span is made for
RegistryCalls == {c \in Calls : c.inputs # Undefined}

\* a caller's TraceInfo
RegistryTraceInfo(traceId) ==
  [traceId |-> traceId, requestTime |-> 0, executionDuration |-> 0,
   state |-> "IN_PROGRESS", requestPreview |-> Undefined,
   responsePreview |-> Undefined]

\* registerTrace(otelTraceId, traceInfo) for a trace id made by
\* generateTraceId, registered before or not
RegisterTrace(otelTraceId) ==
  /\ LET traceId == generateTraceId(otelTraceId)
         r == registerTrace(traces, otelIdToMlflowTraceId, otelTraceId,
                            RegistryTraceInfo(traceId), Now)
     IN /\ traces' = r.traces
        /\ otelIdToMlflowTraceId' = r.map
        /\ registered' = IF r.threw THEN registered
                         ELSE [registered EXCEPT ![traceId] = {}]
        /\ lastOp' = Op("registerTrace", 0, otelTraceId, traceId,
                        IF r.threw THEN "threw" ELSE "ok")
  /\ UNCHANGED <<clock, spans, exported, expiredLog>>

\* registerSpan(span) for a live span the caller made for traceId, or made
\* and registered before
RegisterSpan(spanId, traceId, parent, call) ==
  /\ spanId \in 1 .. MaxRegistrySpans
  /\ spanId <= Len(spans) + 1
  /\ LET span == [NewSpan(0, parent, call) EXCEPT !.traceId = traceId,
                                                   !.inputs = call.inputs]
     IN /\ spanId \in DOMAIN spans =>
              /\ spans[spanId].traceId = traceId
              /\ spans[spanId].parent = parent
              /\ spans[spanId].call = call
        /\ spans' = IF spanId \in DOMAIN spans THEN spans ELSE Append(spans, span)
  /\ LET r == registerSpan(traces, otelIdToMlflowTraceId, traceId, spanId, Now)
     IN /\ traces' = r.traces
        /\ otelIdToMlflowTraceId' = r.map
        /\ registered' = IF r.stored
                           THEN [registered EXCEPT ![traceId] = @ \cup {spanId}]
                           ELSE registered
        /\ expiredLog' = expiredLog \cup r.expired
        /\ lastOp' = Op("registerSpan", spanId, 0, traceId,
                        IF r.stored THEN "stored" ELSE "dropped")
  /\ UNCHANGED <<clock, exported>>

GetTrace(traceId) ==
  /\ LET g == getTrace(traces, otelIdToMlflowTraceId, traceId, Now)
     IN /\ traces' = g.traces
        /\ otelIdToMlflowTraceId' = g.map
        /\ expiredLog' = expiredLog \cup g.expired
        /\ lastOp' = Op("getTrace", 0, 0, traceId,
                        IF g.found THEN "found" ELSE "null")
  /\ UNCHANGED <<clock, spans, exported, registered>>

\* popTrace(otelTraceId); the caller keeps the returned trace to itself
PopTrace(otelTraceId) ==
  /\ LET p == popTrace(traces, otelIdToMlflowTraceId, otelTraceId, Now, spans)
     IN /\ traces' = p.traces
        /\ otelIdToMlflowTraceId' = p.map
        /\ expiredLog' = expiredLog \cup p.expired
        /\ lastOp' = Op("popTrace", 0, otelTraceId,
                        getMlflowTraceIdFromOtelId(otelIdToMlflowTraceId, otelTraceId),
                        IF p.found THEN "found" ELSE "null")
  /\ UNCHANGED <<clock, spans, exported, registered>>

NextRegistry ==
  \/ \E o \in RegistryOtelIds : RegisterTrace(o)
  \/ \E spanId \in 1 .. MaxRegistrySpans, t \in RegistryTraceIds,
        parent \in RegistryParents, call \in RegistryCalls :
        RegisterSpan(spanId, t, parent, call)
  \/ \E t \in RegistryTraceIds : GetTrace(t)
  \/ \E o \in RegistryOtelIds : PopTrace(o)
  \/ Tick
  \/ Sweep

SpecRegistry == Init /\ [][NextRegistry]_vars

(* ---------------- the name deduplication, on its own -------------------- *)
\* the names of the spans given to deduplicateSpanNamesInPlace; <<"red", 1>>
\* is the name red_1
DedupNames == {<<"red">>, <<"blue">>, <<"green">>, <<"red", 1>>}

\* the i-th span of the sequence, with its name
DedupSpan(i, name) ==
  [NewSpan(i, NoParent, CHOOSE c \in Calls : c.inputs # Undefined)
     EXCEPT !.name = name]

InitDedup ==
  /\ clock = 0
  /\ traces = <<>>
  /\ otelIdToMlflowTraceId = <<>>
  /\ \E n \in 0 .. MaxDedupLen :
        \E names \in [1 .. n -> DedupNames] :
           spans = [i \in 1 .. n |-> DedupSpan(i, names[i])]
  /\ exported = <<>>
  /\ registered = [t \in TraceIds |-> {}]
  /\ expiredLog = {}
  /\ lastOp = Op("init", 0, 0, Null, "")

\* deduplicateSpanNamesInPlace(spans)
Deduplicate ==
  /\ spans' = deduplicateSpanNamesInPlace([i \in DOMAIN spans |-> i], spans)
  /\ lastOp' = Op("deduplicate", 0, 0, Null, "")
  /\ UNCHANGED <<clock, traces, otelIdToMlflowTraceId, exported, registered,
                 expiredLog>>

NextDedup == Deduplicate

SpecDedup == InitDedup /\ [][NextDedup]_vars

(* ------------------ one live span and its setters ---------------------- *)
\* SpecLiveSpan: application code holds one LiveSpan and calls its setters
\* and end() in any order
AttributeValues == {"1", "x"}
StatusArguments == {"OK", "ERROR", "UNSET", InvalidStatus}
LiveEndOptions ==
  [outputs : {Undefined, "2", Unserializable},
   attributes : {Undefined, "y", Unserializable},
   status : {Undefined, "OK", "ERROR", InvalidStatus}]

LiveOp(op, arg, res) == [op |-> op, arg |-> arg, res |-> res]

InitLiveSpan ==
  /\ clock = 0
  /\ traces = <<>>
  /\ otelIdToMlflowTraceId = <<>>
  /\ \E call \in Calls :
        spans = <<[NewSpan(1, NoParent, call)
                     EXCEPT !.traceId = generateTraceId(1)]>>
  /\ exported = <<>>
  /\ registered = [t \in TraceIds |-> {}]
  /\ expiredLog = {}
  /\ lastOp = LiveOp("init", Null, "")

\* LiveSpan.setInputs / setOutputs / setAttribute("custom", value)
LiveSetAttribute(key, value) ==
  /\ IF SetThrows(value)
       THEN /\ lastOp' = LiveOp("set", <<key, value>>, "threw")
            /\ UNCHANGED spans
       ELSE /\ spans' = [spans EXCEPT ![1] = OtelSetAttribute(@, key, value)]
            /\ lastOp' = LiveOp("set", <<key, value>>, "")
  /\ UNCHANGED <<clock, traces, otelIdToMlflowTraceId, exported, registered,
                 expiredLog>>

\* LiveSpan.setStatus(status): throws unless status is a SpanStatus or a string
LiveSetStatus(status) ==
  /\ IF status = InvalidStatus
       THEN /\ lastOp' = LiveOp("setStatus", status, "threw")
            /\ UNCHANGED spans
       ELSE /\ spans' = [spans EXCEPT ![1] = OtelSetStatus(@, status)]
            /\ lastOp' = LiveOp("setStatus", status, "")
  /\ UNCHANGED <<clock, traces, otelIdToMlflowTraceId, exported, registered,
                 expiredLog>>

\* LiveSpan.end(options) on the span by itself, no processor listening
LiveEnd(options) ==
  /\ LET l == LiveSpanEnd(spans[1], options, NowHrTime)
     IN /\ spans' = [spans EXCEPT ![1] = l.span]
        /\ lastOp' = LiveOp("end", options,
                            IF l.threw THEN "threw"
                            ELSE IF spans[1].ended THEN "ignored"
                            ELSE "ended")
  /\ UNCHANGED <<clock, traces, otelIdToMlflowTraceId, exported, registered,
                 expiredLog>>

\* the clock moves on
LiveTick ==
  /\ clock < MaxClock
  /\ clock' = clock + 1
  /\ lastOp' = LiveOp("tick", Null, "")
  /\ UNCHANGED <<traces, otelIdToMlflowTraceId, spans, exported, registered,
                 expiredLog>>

NextLiveSpan ==
  \/ \E key \in {"inputs", "outputs", "custom"},
        value \in AttributeValues \cup {Unserializable} :
          LiveSetAttribute(key, value)
  \/ \E status \in StatusArguments : LiveSetStatus(status)
  \/ \E options \in LiveEndOptions : LiveEnd(options)
  \/ LiveTick

SpecLiveSpan == InitLiveSpan /\ [][NextLiveSpan]_vars

(* -------------- span entities and attribute registries ----------------- *)
\* SpecEntities: createMlflowSpan makes one span object from a handle of the
\* tracing SDK; its attributes are set and read, it is ended, and it is
\* written to JSON and read back

\* a JavaScript value is <<type, text>>, text being its JSON text, and for a
\* string its characters
JUndefined == <<"undefined", "undefined">>
JNull == <<"null", "null">>
JString(text) == <<"string", text>>
\* the values application code stores
JsonValues ==
  {JNull, <<"boolean", "false">>, <<"number", "0">>, <<"number", "123">>, JString(""), JString("123"),
   JString("true"), JString("hi"), <<"object", "{\"a\":[1]}">>}
\* with the values that the texts of the model parse to
JsonUniverse ==
  JsonValues \cup {<<"boolean", "true">>, JString("tr-1"), JString("UNKNOWN"), JString("LLM")}

\* the JSON text of a value: a string is quoted
JSONtext(value) ==
  IF value[1] = "string" THEN "\"" \o value[2] \o "\"" ELSE value[2]

\* mutant: a string is stored as it is
JSONstringifyBare(value) ==
  IF value = JUndefined THEN JUndefined ELSE JString(value[2])

\* JSON.stringify(value): the JSON text, as a string; undefined for undefined
JSONstringify(value) ==
  IF value = JUndefined THEN JUndefined ELSE JString(JSONtext(value))

\* JSON.parse(text) succeeds / its result
JSONparses(text) == \E v \in JsonUniverse : JSONtext(v) = text
JSONparse(text) == CHOOSE v \in JsonUniverse : JSONtext(v) = text

\* a value that is true in a condition
Truthy(value) ==
  value \notin {JUndefined, JNull, <<"boolean", "false">>, <<"number", "0">>, JString("")}

\* SpanAttributeKey
TRACE_ID == "mlflow.traceRequestId"
SPAN_TYPE == "mlflow.spanType"
NO_OP_SPAN_TRACE_ID == "no-op-span-trace-id"
INVALID_SPANID == "0000000000000000"
\* the tracing SDK's limit on the attributes of a span (default 128), scaled
attributeCountLimit == 3
\* the size of the read cache of a completed span (128), scaled
cacheMaxSize == 2

AttributeKeys == {"", "k", "j"}

\* obj[key] of an object kept as a Map
Property(object, key) ==
  IF MapHas(object, key) THEN MapValue(object, key) ELSE JUndefined

\* the tracing SDK's Span.setAttribute(key, value): nothing happens for a
\* null value, on an ended span, for an empty key, and for a new key when
\* the span holds attributeCountLimit attributes
SdkSetAttribute(span, key, value) ==
  IF \/ value \in {JUndefined, JNull}
     \/ span.ended
     \/ key = ""
     \/ (Len(span.attributes) >= attributeCountLimit
           /\ ~MapHas(span.attributes, key))
    THEN span
    ELSE [span EXCEPT !.attributes = MapSet(@, key, value)]

\* mutant: a string that does not parse is given up for null
RegistryGetNoFallback(span, key) ==
  LET serializedValue == Property(span.attributes, key)
  IN IF Truthy(serializedValue) /\ serializedValue[1] = "string"
       THEN IF JSONparses(serializedValue[2])
              THEN JSONparse(serializedValue[2])
              ELSE JNull
       ELSE serializedValue

\* _SpanAttributesRegistry.get(key)
RegistryGet(span, key) ==
  LET serializedValue == Property(span.attributes, key)
  IN IF Truthy(serializedValue) /\ serializedValue[1] = "string"
       THEN IF JSONparses(serializedValue[2])
              THEN JSONparse(serializedValue[2])
              ELSE serializedValue
       ELSE serializedValue

\* _SpanAttributesRegistry.set(key, value)
RegistrySet(span, key, value) == SdkSetAttribute(span, key, JSONstringify(value))

\* _SpanAttributesRegistry.getAll()
RegistryGetAll(span) ==
  [i \in DOMAIN span.attributes |->
     <<span.attributes[i][1], RegistryGet(span, span.attributes[i][1])>>]

\* mutant: a full cache drops the entry read last
CachedGetEvictNewest(span, cache, key) ==
  IF MapHas(cache, key)
    THEN [value |-> MapValue(cache, key),
          cache |-> Append(MapDelete(cache, key), <<key, MapValue(cache, key)>>)]
    ELSE LET value == RegistryGet(span, key)
             kept == IF Len(cache) >= cacheMaxSize
                       THEN SubSeq(cache, 1, Len(cache) - 1) ELSE cache
         IN [value |-> value, cache |-> Append(kept, <<key, value>>)]

\* _CachedSpanAttributesRegistry.get(key): the value and the cache after it
CachedGet(span, cache, key) ==
  IF MapHas(cache, key)
    THEN [value |-> MapValue(cache, key),
          cache |-> Append(MapDelete(cache, key), <<key, MapValue(cache, key)>>)]
    ELSE LET value == RegistryGet(span, key)
             kept == IF Len(cache) >= cacheMaxSize THEN Tail(cache) ELSE cache
         IN [value |-> value, cache |-> Append(kept, <<key, value>>)]

\* the handles createMlflowSpan is given: none, the SDK's non-recording span,
\* a span in progress, and spans that have ended
Handle(spanId, ended, attributes) ==
  [spanId |-> spanId, ended |-> ended, attributes |-> attributes,
   status |-> IF ended THEN "OK" ELSE "UNSET",
   endTime |-> IF ended THEN <<1, 0>> ELSE Null]
Handles ==
  LET EndedAttributes ==
        {<<>>} \cup {<<<<TRACE_ID, JString("\"tr-1\"")>>, <<"k", v>>>> :
                        v \in {JSONstringify(JString("123")), JString("hi"),
                               JSONstringify(<<"number", "0">>)}}
  IN {Null, Handle(INVALID_SPANID, FALSE, <<>>),
      Handle(INVALID_SPANID, TRUE, <<>>), Handle("s1", FALSE, <<>>)}
       \cup {Handle("s1", TRUE, a) : a \in EndedAttributes}

\* mutant: an ended handle is looked at first
createMlflowSpanEndedFirst(otelSpan, traceId, spanType) ==
  IF otelSpan # Null /\ otelSpan.ended
    THEN [variant |-> "Span", _span |-> otelSpan, _cache |-> <<>>]
  ELSE IF otelSpan = Null \/ otelSpan.spanId = INVALID_SPANID
    THEN [variant |-> "NoOpSpan", _span |-> otelSpan, _cache |-> <<>>]
  ELSE [variant |-> "LiveSpan",
        _span |-> RegistrySet(RegistrySet(otelSpan, TRACE_ID, JString(traceId)),
                              SPAN_TYPE,
                              JString(IF spanType = Undefined THEN "UNKNOWN"
                                      ELSE spanType)),
        _cache |-> <<>>]

\* createMlflowSpan(otelSpan, traceId, spanType)
createMlflowSpan(otelSpan, traceId, spanType) ==
  IF otelSpan = Null \/ otelSpan.spanId = INVALID_SPANID
    THEN [variant |-> "NoOpSpan", _span |-> otelSpan, _cache |-> <<>>]
  ELSE IF otelSpan.ended
    THEN [variant |-> "Span", _span |-> otelSpan, _cache |-> <<>>]
  ELSE [variant |-> "LiveSpan",
        _span |-> RegistrySet(RegistrySet(otelSpan, TRACE_ID, JString(traceId)),
                              SPAN_TYPE,
                              JString(IF spanType = Undefined THEN "UNKNOWN"
                                      ELSE spanType)),
        _cache |-> <<>>]

\* the methods a variant has that change a span
Mutators ==
  {"setInputs", "setOutputs", "setAttribute", "setAttributes", "setStatus",
   "addEvent", "recordException", "end"}
HasMutators(span) == span.variant \in {"LiveSpan", "NoOpSpan"}

\* mutant: a NoOpSpan reads the attributes of its handle
GetAttributeStored(span, key) ==
  IF span.variant = "Span" THEN CachedGet(span._span, span._cache, key)
  ELSE [value |-> IF span._span = Null THEN JUndefined
                  ELSE RegistryGet(span._span, key),
        cache |-> span._cache]

\* span.getAttribute(key) of a variant: the value and the cache after it
GetAttribute(span, key) ==
  IF span.variant = "NoOpSpan" THEN [value |-> JNull, cache |-> span._cache]
  ELSE IF span.variant = "Span" THEN CachedGet(span._span, span._cache, key)
  ELSE [value |-> RegistryGet(span._span, key), cache |-> span._cache]

\* the getters of a NoOpSpan
NoOpGetters ==
  [traceId |-> NO_OP_SPAN_TRACE_ID, spanId |-> "", name |-> "",
   parentId |-> Null, endTime |-> Null, status |-> "UNSET", inputs |-> JNull,
   outputs |-> JNull, attributes |-> <<>>, events |-> <<>>]

\* the getters of a span, read without touching a cache
Getters(span) ==
  IF span.variant = "NoOpSpan" THEN NoOpGetters
  ELSE [traceId |-> RegistryGet(span._span, TRACE_ID),
        spanId |-> span._span.spanId, name |-> "", parentId |-> Null,
        endTime |-> span._span.endTime, status |-> span._span.status,
        inputs |-> RegistryGet(span._span, "mlflow.spanInputs"),
        outputs |-> RegistryGet(span._span, "mlflow.spanOutputs"),
        attributes |-> RegistryGetAll(span._span), events |-> <<>>]

InitEntities ==
  /\ clock = 0
  /\ traces = <<>>
  /\ otelIdToMlflowTraceId = <<>>
  /\ \E otelSpan \in Handles, traceId \in {"tr-1"}, spanType \in {Undefined, "LLM"} :
        /\ spans = <<createMlflowSpan(otelSpan, traceId, spanType)>>
        /\ lastOp = LiveOp("createMlflowSpan", <<otelSpan, traceId, spanType>>, "")
  /\ exported = <<>>
  /\ registered = [t \in TraceIds |-> {}]
  /\ expiredLog = {}

EntityFrame ==
  UNCHANGED <<clock, traces, otelIdToMlflowTraceId, exported, registered,
              expiredLog>>

\* span.setAttribute(key, value) on a live span
LiveSpanSetAttribute(key, value) ==
  /\ spans[1].variant = "LiveSpan"
  /\ spans' = [spans EXCEPT ![1]._span = RegistrySet(@, key, value)]
  /\ lastOp' = LiveOp("setAttribute", <<key, value>>, "")
  /\ EntityFrame

\* span.end() on a live span, as far as the attributes see it
LiveSpanEnded ==
  /\ spans[1].variant = "LiveSpan"
  /\ ~spans[1]._span.ended
  /\ spans' = [spans EXCEPT ![1]._span.ended = TRUE,
                            ![1]._span.status = "OK",
                            ![1]._span.endTime = <<1, 0>>]
  /\ lastOp' = LiveOp("end", Null, "")
  /\ EntityFrame

\* any mutator of a NoOpSpan: the body is empty
NoOpSpanMutator(method, key, value) ==
  /\ spans[1].variant = "NoOpSpan"
  /\ spans' = spans
  /\ lastOp' = LiveOp(method, <<key, value>>, "")
  /\ EntityFrame

\* mutant: the set of a completed span writes the read cache
CachedSetWrites(key, value) ==
  /\ spans[1].variant = "Span"
  /\ spans' = [spans EXCEPT ![1]._cache = MapSet(@, key, value)]
  /\ lastOp' = LiveOp("registry.set", <<key, value>>, "threw")
  /\ EntityFrame

\* span._attributesRegistry.set(key, value) on a completed span: throws
CachedSet(key, value) ==
  /\ spans[1].variant = "Span"
  /\ spans' = spans
  /\ lastOp' = LiveOp("registry.set", <<key, value>>, "threw")
  /\ EntityFrame

\* span.getAttribute(key)
SpanGetAttribute(key) ==
  /\ LET g == GetAttribute(spans[1], key)
     IN /\ spans' = [spans EXCEPT ![1]._cache = g.cache]
        /\ lastOp' = LiveOp("getAttribute", key, g.value)
  /\ EntityFrame

\* convertStatusCodeToOTel(statusCode) || UNSET
convertStatusCodeToOTel(statusCode) ==
  IF statusCode \in {"STATUS_CODE_OK", "OK"} THEN "OK"
  ELSE IF statusCode \in {"STATUS_CODE_ERROR", "ERROR"} THEN "ERROR"
  ELSE "UNSET"

\* encodeTraceIdToBase64 / encodeSpanIdToBase64 and decodeIdFromBase64: an
\* id under its encoding
EncodeIdToBase64(id) == <<"base64", id>>
DecodeIdFromBase64(encoded) == encoded[2]

\* a nanosecond count is kept as the HrTime it converts to and from
\* (convertHrTimeToNanoSeconds, convertNanoSecondsToHrTime); null / 1e9 and
\* null % 1e9 are 0
NanoSecondsOf(hrTime) == <<"number", hrTime>>
HrTimeOfJson(nanoseconds) ==
  IF nanoseconds = JNull THEN <<0, 0>> ELSE nanoseconds[2]

\* Span.toJson()
SpanToJson(span) ==
  [trace_id |-> EncodeIdToBase64(RegistryGet(span._span, TRACE_ID)),
   span_id |-> EncodeIdToBase64(span._span.spanId),
   end_time_unix_nano |-> IF span._span.endTime # Null
                            THEN NanoSecondsOf(span._span.endTime)
                            ELSE JNull,
   status |-> [code |-> span._span.status],
   attributes |-> RegistryGetAll(span._span)]

\* Span.fromJson(json): the attributes are stored as they are
SpanFromJson(json) ==
  [variant |-> "Span",
   _span |-> [spanId |-> DecodeIdFromBase64(json.span_id), ended |-> TRUE,
              attributes |-> json.attributes,
              status |-> convertStatusCodeToOTel(json.status.code),
              endTime |-> HrTimeOfJson(json.end_time_unix_nano)],
   _cache |-> <<>>]

\* TraceData.fromJson(data.toJson()) for the span of a trace
SpanRoundTrip ==
  /\ spans[1].variant \in {"LiveSpan", "Span"}
  /\ MapHas(spans[1]._span.attributes, TRACE_ID)
  /\ spans' = <<SpanFromJson(SpanToJson(spans[1]))>>
  /\ lastOp' = LiveOp("fromJson", SpanToJson(spans[1]), "")
  /\ EntityFrame

NextEntities ==
  \/ \E key \in AttributeKeys, value \in JsonValues :
        LiveSpanSetAttribute(key, value)
  \/ LiveSpanSetAttribute(TRACE_ID, JString("hi"))
  \/ LiveSpanEnded
  \/ \E method \in Mutators, key \in AttributeKeys, value \in JsonValues :
        NoOpSpanMutator(method, key, value)
  \/ \E key \in AttributeKeys, value \in JsonValues : CachedSet(key, value)
  \/ \E key \in AttributeKeys \cup {TRACE_ID} : SpanGetAttribute(key)
  \/ SpanRoundTrip

SpecEntities == InitEntities /\ [][NextEntities]_vars

(* ------------- the system with room for two traces --------------------- *)
\* SpecWide: the application drives the system as in Spec, the trace manager
\* having been built with MLFLOW_TRACE_BUFFER_MAX_SIZE = 2, so that two
\* traces are buffered side by side
wideMaxTraces == 2

\* registerTrace of that manager: NodeCache.set with maxKeys wideMaxTraces
registerTraceWide(tr, mp, otelTraceId, traceInfo, now) ==
  IF Cardinality(DOMAIN tr) >= wideMaxTraces
    THEN [threw |-> TRUE, traces |-> tr, map |-> mp]
    ELSE [threw |-> FALSE,
          traces |-> [k \in DOMAIN tr \cup {traceInfo.traceId} |->
                        IF k = traceInfo.traceId
                          THEN [v |-> NewTrace(traceInfo),
                                t |-> now + ttlSeconds * MsPerSecond]
                          ELSE tr[k]],
          map |-> MapSet(mp, otelTraceId, traceInfo.traceId)]

\* onStart over that manager
onStartWide(tr, mp, span, now) ==
  IF ~HasParent(span)
    THEN LET traceId == generateTraceId(span.otel)
             r == registerTraceWide(tr, mp, span.otel,
                                    NewTraceInfo(traceId, span), now)
         IN IF r.threw
              THEN [threw |-> TRUE, traceId |-> Null, traces |-> r.traces,
                    map |-> r.map]
              ELSE [threw |-> FALSE, traceId |-> traceId, traces |-> r.traces,
                    map |-> r.map]
    ELSE [threw |-> FALSE, traceId |-> getMlflowTraceIdFromOtelId(mp, span.otel),
          traces |-> tr, map |-> mp]

\* startSpan over that manager
StartSpanWide(parent, call) ==
  /\ parent = NoParent => OtelIds \ UsedOtelIds # {}
  /\ LET spanId == Len(spans) + 1
         otel == IF parent = NoParent
                   THEN CHOOSE o \in OtelIds \ UsedOtelIds :
                          \A x \in OtelIds \ UsedOtelIds : o <= x
                   ELSE spans[parent].otel
         otel_span == NewSpan(otel, parent, call)
         s == onStartWide(traces, otelIdToMlflowTraceId, otel_span, Now)
     IN IF s.threw \/ s.traceId = Null
          THEN /\ lastOp' = Op("startSpan", 0, otel, Null,
                               IF s.threw THEN "NoOpSpan:full" ELSE "NoOpSpan:skipped")
               /\ traces' = s.traces
               /\ otelIdToMlflowTraceId' = s.map
               /\ UNCHANGED <<clock, spans, exported, registered, expiredLog>>
          ELSE LET mlflow_span == [otel_span EXCEPT !.traceId = s.traceId,
                                                    !.inputs = call.inputs]
                   r == registerSpan(s.traces, s.map, s.traceId, spanId, Now)
               IN /\ Len(spans) < MaxSpans
                  /\ spans' = Append(spans, mlflow_span)
                  /\ traces' = r.traces
                  /\ otelIdToMlflowTraceId' = r.map
                  /\ registered' = IF r.stored
                                     THEN [registered EXCEPT ![s.traceId] = @ \cup {spanId}]
                                     ELSE registered
                  /\ expiredLog' = expiredLog \cup r.expired
                  /\ lastOp' = Op("startSpan", spanId, otel, s.traceId,
                                  IF r.stored THEN "LiveSpan" ELSE "LiveSpan:dropped")
                  /\ UNCHANGED <<clock, exported>>

NextWide ==
  \/ \E parent \in {NoParent} \cup DOMAIN spans, call \in Calls :
        StartSpanWide(parent, call)
  \/ \E spanId \in DOMAIN spans, d \in {0, 1} :
        \E options \in EndOptions(spans[spanId]) : EndSpan(spanId, options, d)
  \/ Tick
  \/ Sweep

SpecWide == Init /\ [][NextWide]_vars

(* ============================ claims =================================== *)
ExportedIds == {exported[i].info.traceId : i \in DOMAIN exported}
SeqSet(q) == {q[i] : i \in DOMAIN q}
RootsOf(traceId) ==
  {x \in DOMAIN spans : spans[x].traceId = traceId /\ spans[x].parent = NoParent}

\* C1: the exporter hands each trace id to the backend at most once, and
\* only a trace whose root span has ended
C1_ExportedOnceAfterRootEnd ==
  /\ \A i, j \in DOMAIN exported :
        exported[i].info.traceId = exported[j].info.traceId => i = j
  /\ \A i \in DOMAIN exported :
        \E x \in RootsOf(exported[i].info.traceId) : spans[x].ended

\* two traces have been exported, the last one by the end that just ran
C1_Witness ==
  /\ Len(exported) >= 2
  /\ lastOp.op = "end" /\ lastOp.res = "exported"
  /\ exported[Len(exported)].info.traceId = lastOp.trace

\* C2: an exported trace holds exactly the spans registerSpan stored under
\* its trace id, each once and each stamped with that trace id; nothing is
\* stored under the trace id after the export
C2_ExportedSpansAreTheRegisteredSpans ==
  \A i \in DOMAIN exported :
    LET e == exported[i]
    IN /\ SeqSet(e.spans) = registered[e.info.traceId]
       /\ Cardinality(SeqSet(e.spans)) = Len(e.spans)
       /\ \A x \in SeqSet(e.spans) : spans[x].traceId = e.info.traceId

\* a trace of two spans was exported, and a span is then started under a
\* span of the exported trace
C2_Witness ==
  /\ \E i \in DOMAIN exported :
        /\ Len(exported[i].spans) >= 2
        /\ lastOp.otel = exported[i].info.traceId[2]
  /\ lastOp.op = "startSpan" /\ lastOp.res = "NoOpSpan:skipped"

\* C3: a trace whose entry was removed by TTL expiry is buffered no more and
\* is never exported; the end of its root span exports nothing, and throws
\* only for outputs that cannot be serialized
C3_ExpiredTraceNeverExported ==
  /\ \A t \in expiredLog : t \notin DOMAIN traces /\ t \notin ExportedIds
  /\ (lastOp.op = "end" /\ lastOp.trace \in expiredLog) =>
        lastOp.res \in {"skipped", "child", "ignored", "threw:outputs"}

\* the root span of an expired trace has just ended
C3_Witness ==
  /\ lastOp.op = "end" /\ lastOp.res = "skipped"
  /\ lastOp.trace \in expiredLog
  /\ spans[lastOp.span].ended /\ spans[lastOp.span].parent = NoParent

\* C4: right after a successful popTrace(o) that returned trace t, the
\* mapping of o and the entry of t are gone: popTrace(o),
\* getMlflowTraceIdFromOtelId(o) and getTrace(t) find nothing
C4_PopTraceIsDestructive ==
  (lastOp.op = "popTrace" /\ lastOp.res = "found") =>
    /\ ~MapHas(otelIdToMlflowTraceId, lastOp.otel)
    /\ lastOp.trace \notin DOMAIN traces
    /\ ~popTrace(traces, otelIdToMlflowTraceId, lastOp.otel, Now, spans).found
    /\ getMlflowTraceIdFromOtelId(otelIdToMlflowTraceId, lastOp.otel) = Null
    /\ ~getTrace(traces, otelIdToMlflowTraceId, lastOp.trace, Now).found

\* a popTrace has just returned a trace that held a span
C4_Witness ==
  /\ lastOp.op = "popTrace" /\ lastOp.res = "found"
  /\ registered[lastOp.trace] # {}

\* the entry of a trace id is missing: absent, or past its TTL
EntryMissing(traceId) ==
  traceId \notin DOMAIN traces \/ Overdue(traces[traceId], Now)

\* the id mappings that do not point to traceId
MappingsElsewhere(mp, traceId) == SelectSeq(mp, LAMBDA e : e[2] # traceId)

\* C5 as stated: a popTrace that returns not-found leaves the id mapping and
\* the buffered entries unchanged
C5_NotFoundLeavesStateUnchanged ==
  [][(lastOp'.op = "popTrace" /\ lastOp'.res = "null") =>
       (traces' = traces /\ otelIdToMlflowTraceId' = otelIdToMlflowTraceId)]_vars

\* C5 amended: popTrace(o) returns not-found exactly when the mapping of o
\* or the entry it points to is missing; without a mapping the registry is
\* unchanged; with a mapping o -> t but no entry, the mapping of o is
\* removed, an entry of t past its TTL is discarded, and the entries of
\* other traces and the mappings to other traces are unchanged
C5_NotFoundDropsDanglingMapping ==
  [][lastOp'.op = "popTrace" =>
       LET o == lastOp'.otel
           t == lastOp'.trace
       IN /\ lastOp'.res = "null" <=>
               (~MapHas(otelIdToMlflowTraceId, o) \/ EntryMissing(t))
          /\ (lastOp'.res = "null" /\ ~MapHas(otelIdToMlflowTraceId, o)) =>
               (traces' = traces /\ otelIdToMlflowTraceId' = otelIdToMlflowTraceId)
          /\ (lastOp'.res = "null" /\ MapHas(otelIdToMlflowTraceId, o)) =>
               /\ ~MapHas(otelIdToMlflowTraceId', o)
               /\ traces' = Remove(traces, {t})
               /\ MappingsElsewhere(otelIdToMlflowTraceId', t)
                    = MappingsElsewhere(otelIdToMlflowTraceId, t)]_vars

\* popTrace has just returned not-found for an id that had a mapping
C5_Witness ==
  /\ lastOp.op = "popTrace" /\ lastOp.res = "null"
  /\ lastOp.trace # Null

\* C6: registerSpan for a span whose trace id has no entry stores nothing
\* and leaves the entries and the id mappings as they were; so does
\* registerSpan for a trace past its TTL, except that the expired entry and
\* a mapping to it are dropped
C6_SpanWithoutTraceIsDropped ==
  [][(lastOp'.op = "registerSpan" /\ EntryMissing(lastOp'.trace)) =>
       LET t == lastOp'.trace
       IN /\ lastOp'.res = "dropped"
          /\ registered' = registered
          /\ traces' = Remove(traces, {t})
          /\ MappingsElsewhere(otelIdToMlflowTraceId', t)
               = MappingsElsewhere(otelIdToMlflowTraceId, t)
          /\ t \notin DOMAIN traces =>
               (traces' = traces /\ otelIdToMlflowTraceId' = otelIdToMlflowTraceId)]_vars

\* a span was just dropped whose trace had expired
C6_Witness ==
  /\ lastOp.op = "registerSpan" /\ lastOp.res = "dropped"
  /\ lastOp.trace \in expiredLog
  /\ lastOp.trace \notin DOMAIN traces

\* C7: the step in which an entry expires removes the entry and the id
\* mapping that points to it: afterwards getTrace and
\* getMlflowTraceIdFromOtelId find nothing
C7_ExpiryRemovesEntryAndMapping ==
  [][\A t \in expiredLog' \ expiredLog :
       /\ t \notin DOMAIN traces'
       /\ t \notin MapValues(otelIdToMlflowTraceId')
       /\ ~getTrace(traces', otelIdToMlflowTraceId', t, Now').found
       /\ getMlflowTraceIdFromOtelId(otelIdToMlflowTraceId', t[2]) = Null]_vars

\* the sweep has just expired a trace that held a span
C7_Witness ==
  /\ lastOp.op = "sweep"
  /\ \E t \in expiredLog : registered[t] # {} /\ t \notin DOMAIN traces

\* C8 as stated: a span started without a parent always gets its trace
\* registered, also when the buffer is full
C8_FullBufferEvictsOldest ==
  (/\ lastOp.op = "startSpan"
   /\ \/ lastOp.res = "NoOpSpan:full"
      \/ (lastOp.span # 0 /\ spans[lastOp.span].parent = NoParent)) =>
    /\ generateTraceId(lastOp.otel) \in DOMAIN traces
    /\ getMlflowTraceIdFromOtelId(otelIdToMlflowTraceId, lastOp.otel)
         = generateTraceId(lastOp.otel)

\* C9: never more than maxTraces entries, never more id mappings than entries
C9_BufferIsBounded ==
  /\ Cardinality(DOMAIN traces) <= maxTraces
  /\ Len(otelIdToMlflowTraceId) <= Cardinality(DOMAIN traces)

\* the buffer is full and a further trace was just refused
C9_Witness ==
  /\ Cardinality(DOMAIN traces) = maxTraces
  /\ lastOp.op = "startSpan" /\ lastOp.res = "NoOpSpan:full"

\* C10: an entry expires ttlSeconds after its registration, whatever was
\* registered or looked up since; no trace is exported whose root span ended
\* later than that
C10_RetentionCountsFromRegistration ==
  /\ \A t \in DOMAIN traces :
        traces[t].t = traces[t].v.info.requestTime + ttlSeconds * MsPerSecond
  /\ \A i \in DOMAIN exported :
        exported[i].info.executionDuration <= ttlSeconds * MsPerSecond

\* a trace expired although a child span was registered in it after its
\* registration
C10_Witness ==
  \E x \in DOMAIN spans :
    /\ HasParent(spans[x])
    /\ spans[x].traceId \in expiredLog
    /\ x \in registered[spans[x].traceId]
    /\ \E r \in RootsOf(spans[x].traceId) :
          HrTimeToMs(spans[r].startTime) < HrTimeToMs(spans[x].startTime)

\* C11 as stated: no call of the application throws: startSpan returns a
\* span (a LiveSpan, or a NoOpSpan on failure) in every state of the registry,
\* and the end of a span it returned does not throw
C11_NoExceptionReachesTheApplication ==
  /\ lastOp.op = "startSpan" =>
        lastOp.res \in {"LiveSpan", "LiveSpan:dropped", "NoOpSpan:full",
                        "NoOpSpan:skipped"}
  /\ lastOp.op = "end" =>
        lastOp.res \in {"exported", "child", "skipped", "ignored"}

\* C12: a buffered trace is IN_PROGRESS; an exported trace is OK or ERROR,
\* ERROR exactly when its root span ended with status ERROR
C12_TraceStateFollowsRootStatus ==
  /\ \A t \in DOMAIN traces : traces[t].v.info.state = "IN_PROGRESS"
  /\ \A i \in DOMAIN exported :
        /\ exported[i].info.state \in {"OK", "ERROR"}
        /\ \A r \in RootsOf(exported[i].info.traceId) :
              exported[i].info.state = "ERROR" <=> spans[r].status = "ERROR"

\* one trace was exported as OK and one as ERROR
C12_Witness ==
  /\ \E i \in DOMAIN exported : exported[i].info.state = "OK"
  /\ \E i \in DOMAIN exported :
        /\ exported[i].info.state = "ERROR"
        /\ \E r \in RootsOf(exported[i].info.traceId) : spans[r].status = "ERROR"

\* an HrTime <<seconds, nanoseconds>> in milliseconds
InMilliseconds(hrTime) == hrTime[1] * 1000 + hrTime[2] \div 1000000

NamesOf(sp) == [i \in DOMAIN sp |-> sp[i].name]

\* C14: deduplicateSpanNamesInPlace keeps the length and the order of the
\* sequence, gives the k-th of the spans sharing a name that occurs more than
\* once the name name_k, and leaves a name that occurs once as it is
C14_DedupSuffixesInOrder ==
  [][lastOp'.op = "deduplicate" =>
       /\ Len(spans') = Len(spans)
       /\ \A i \in DOMAIN spans :
            LET name == spans[i].name
                same == {j \in DOMAIN spans : spans[j].name = name}
                k == Cardinality({j \in same : j <= i})
            IN spans'[i] = [spans[i] EXCEPT
                              !.name = IF Cardinality(same) > 1
                                         THEN Append(name, k)
                                         ELSE name]]_vars

\* [red, blue, red, green, blue, red] has become
\* [red_1, blue_1, red_2, green, blue_2, red_3]
C14_Witness ==
  /\ lastOp.op = "deduplicate"
  /\ NamesOf(spans) = <<(<<"red", 1>>), (<<"blue", 1>>), (<<"red", 2>>),
                        (<<"green">>), (<<"blue", 2>>), (<<"red", 3>>)>>
  /\ \A i \in DOMAIN spans : spans[i].otel = i

\* C15: spans started without a parent have trace ids of their own, a span
\* started with a parent has its parent's trace id, and an exported trace
\* holds exactly one span without a parent while the parent of each other
\* span is a span of the same exported trace
C15_OneRootPerTrace ==
  /\ \A x, y \in DOMAIN spans :
        (spans[x].parent = NoParent /\ spans[y].parent = NoParent /\ x # y) =>
           spans[x].traceId # spans[y].traceId
  /\ \A x \in DOMAIN spans :
        spans[x].parent # NoParent =>
           spans[x].traceId = spans[spans[x].parent].traceId
  /\ \A i \in DOMAIN exported :
        LET members == SeqSet(exported[i].spans)
        IN /\ Cardinality({x \in members : spans[x].parent = NoParent}) = 1
           /\ \A x \in members :
                 spans[x].parent # NoParent => spans[x].parent \in members

\* a trace of a root span and its child was exported
C15_Witness ==
  \E i \in DOMAIN exported :
    \E x, y \in SeqSet(exported[i].spans) :
      /\ spans[x].parent = NoParent
      /\ spans[y].parent = x
      /\ spans[y].traceId = exported[i].info.traceId

\* the trace the step has handed to the exporter, if it has
Exports == Len(exported') > Len(exported)
Exported == exported'[Len(exported')]

\* the span set of a trace id in the buffer, empty without an entry
SpanDictOf(tr, traceId) ==
  IF traceId \in DOMAIN tr THEN tr[traceId].v.spanDict ELSE <<>>

\* C16 as stated: in an exported trace a span that ended earlier precedes a
\* span that ended later: every span that had ended before the end of the
\* root span precedes the root span
C16_SpansInEndOrder ==
  [][Exports =>
       \A j, k \in DOMAIN Exported.spans :
          (/\ spans[Exported.spans[j]].ended
           /\ ~spans[Exported.spans[k]].ended
           /\ spans'[Exported.spans[k]].ended) => j < k]_vars

\* C16 amended: a span is appended to its trace's span set when startSpan
\* registers it, and the end of a span does not move it; the exported
\* sequence is the span set as it was, so a span that started earlier
\* precedes a span that started later
C16_SpansInStartOrder ==
  [][/\ (lastOp'.op = "startSpan" /\ lastOp'.res = "LiveSpan") =>
          SpanDictOf(traces', lastOp'.trace)
            = Append(SpanDictOf(traces, lastOp'.trace), lastOp'.span)
     /\ lastOp'.op = "end" =>
          \A t \in DOMAIN traces' :
             SpanDictOf(traces', t) = SpanDictOf(traces, t)
     /\ Exports =>
          /\ Exported.spans = SpanDictOf(traces, Exported.info.traceId)
          /\ \A j, k \in DOMAIN Exported.spans :
                j < k => Exported.spans[j] < Exported.spans[k]]_vars

\* a trace was exported with the root span before its child, though the
\* child ended first
C16_Witness ==
  /\ lastOp.op = "end" /\ lastOp.res = "exported"
  /\ \E i \in DOMAIN exported :
        /\ Len(exported[i].spans) = 2
        /\ LET x == exported[i].spans[1]
               y == exported[i].spans[2]
           IN /\ spans[y].parent = x
              /\ spans[x].ended /\ spans[y].ended
              /\ InMilliseconds(spans[y].endTime)
                   < InMilliseconds(spans[x].endTime)

C18_ExportedSpansHaveEnded ==
  [][Exports =>
       \A k \in DOMAIN Exported.spans : spans'[Exported.spans[k]].ended]_vars

\* C19 as stated: no step changes a span of a trace that has been handed to
\* the exporter
C19_ExportedTraceIsImmutable ==
  [][\A i \in DOMAIN exported :
        \A k \in DOMAIN exported[i].spans :
           spans'[exported[i].spans[k]] = spans[exported[i].spans[k]]]_vars

\* C20 as stated: a span that has ended never changes again
C20_EndedSpanNeverChanges ==
  [][\A x \in DOMAIN spans : spans[x].ended => spans'[x] = spans[x]]_vars

\* C20 amended: the inputs, outputs, status and end time of a span that has
\* ended never change again, whatever is called on it; its name changes only
\* in the step that ends the root span of its trace, by the deduplication of
\* the span names of that trace
C20_EndedSpanKeepsAllButName ==
  [][\A x \in DOMAIN spans :
        spans[x].ended =>
          /\ [spans'[x] EXCEPT !.name = spans[x].name] = spans[x]
          /\ spans'[x].name # spans[x].name =>
               /\ lastOp'.op = "end"
               /\ lastOp'.span # x
               /\ ~spans[lastOp'.span].ended
               /\ spans[lastOp'.span].parent = NoParent
               /\ spans[lastOp'.span].traceId = spans[x].traceId]_vars

\* end() was called again, with other outputs and at a later time, on a span
\* that had ended, and the span kept its outputs and its end time
C20_Witness ==
  /\ lastOp.op = "end" /\ lastOp.res = "ignored"
  /\ spans[lastOp.span].ended
  /\ spans[lastOp.span].outputs = spans[lastOp.span].call.outputs
  /\ InMilliseconds(spans[lastOp.span].endTime) < Now
  /\ \E x \in DOMAIN spans :
        /\ spans[x].ended
        /\ Len(spans[x].name) = 2

\* what a setter of end's options leaves in a field: the option if it is
\* given, else what the field held
Applied(option, held) == IF option # Undefined THEN option ELSE held

\* C21: an end() that completes on a live span leaves the span ended with the
\* outputs, the attributes and the status of its options applied, and with
\* status ERROR if the status so applied was ERROR and OK in every other case
C21_EndAppliesOptionsThenForcesStatus ==
  [][(lastOp'.op = "end" /\ lastOp'.res = "ended") =>
       LET o == lastOp'.arg
           s == spans[1]
           t == spans'[1]
       IN /\ ~s.ended /\ t.ended
          /\ t.outputs = Applied(o.outputs, s.outputs)
          /\ t.custom = Applied(o.attributes, s.custom)
          /\ t.status = IF Applied(o.status, s.status) = "ERROR"
                          THEN "ERROR" ELSE "OK"
          /\ t.status # "UNSET"]_vars

\* a span whose status had been set to ERROR was ended with outputs and
\* attributes and without a status, and is ended with status ERROR
C21_Witness ==
  /\ lastOp.op = "end" /\ lastOp.res = "ended"
  /\ lastOp.arg.status = Undefined
  /\ lastOp.arg.outputs = "2" /\ lastOp.arg.attributes = "y"
  /\ spans[1].ended
  /\ spans[1].outputs = "2" /\ spans[1].custom = "y"
  /\ spans[1].status = "ERROR"

C23_NoOpSpanKeepsSentinels ==
  [][spans[1].variant = "NoOpSpan" =>
       /\ spans'[1] = spans[1]
       /\ Getters(spans'[1]) = NoOpGetters
       /\ \A key \in AttributeKeys : GetAttribute(spans'[1], key).value = JNull
       /\ lastOp'.op = "getAttribute" => lastOp'.res = JNull]_vars

\* setAttribute("k", "hi") was called on a NoOpSpan and getAttribute("k")
\* then returned null
C23_Witness ==
  /\ spans[1].variant = "NoOpSpan"
  /\ lastOp.op = "getAttribute" /\ lastOp.arg = "k" /\ lastOp.res = JNull
  /\ Getters(spans[1]).traceId = NO_OP_SPAN_TRACE_ID

\* the span takes a value for the key: it has not ended, the key is not
\* empty, and the key is held or the attribute limit is not reached
Stores(span, key) ==
  /\ ~span.ended
  /\ key # ""
  /\ MapHas(span.attributes, key) \/ Len(span.attributes) < attributeCountLimit

\* C24 as stated: on a LiveSpan, for every key and value, get(key) after
\* set(key, value) returns the value
C24_SetThenGetReturnsValue ==
  [][(lastOp'.op = "setAttribute" /\ spans[1].variant = "LiveSpan") =>
       RegistryGet(spans'[1]._span, lastOp'.arg[1]) = lastOp'.arg[2]]_vars

\* C24 amended: on a LiveSpan that takes a value for the key, get(key) after
\* set(key, value) returns the value and the other keys read as before; on
\* one that does not, every key reads as before
C24_SetThenGetOnStoringSpan ==
  [][(lastOp'.op = "setAttribute" /\ spans[1].variant = "LiveSpan") =>
       LET key == lastOp'.arg[1]
           value == lastOp'.arg[2]
           before(k) == RegistryGet(spans[1]._span, k)
           after(k) == RegistryGet(spans'[1]._span, k)
       IN /\ Stores(spans[1]._span, key) => after(key) = value
          /\ ~Stores(spans[1]._span, key) => after(key) = before(key)
          /\ \A k \in (AttributeKeys \cup {TRACE_ID, SPAN_TYPE}) \ {key} :
                after(k) = before(k)]_vars

\* the string "123" was set for the key k and came back as the string "123"
C24_Witness ==
  /\ spans[1].variant = "LiveSpan"
  /\ lastOp.op = "getAttribute" /\ lastOp.arg = "k"
  /\ lastOp.res = JString("123")
  /\ Property(spans[1]._span.attributes, "k") = JString("\"123\"")

\* C25 as stated, for a span that has ended: the span read back from its
\* JSON writes the same JSON
C25_JsonRoundTripReproducesJson ==
  [][(lastOp'.op = "fromJson" /\ spans[1]._span.ended) =>
       SpanToJson(spans'[1]) = lastOp'.arg]_vars

\* C26: set on the registry of a completed span throws and leaves the stored
\* attributes and the read cache as they were; no set and no get changes
\* what get returns for a key
C26_CompletedSpanSetFailsAndChangesNothing ==
  [][(spans[1].variant = "Span"
        /\ lastOp'.op \in {"registry.set", "getAttribute"}) =>
       /\ spans'[1]._span = spans[1]._span
       /\ \A key \in AttributeKeys \cup {TRACE_ID} :
             GetAttribute(spans'[1], key).value
               = GetAttribute(spans[1], key).value
       /\ lastOp'.op = "registry.set" =>
             /\ lastOp'.res = "threw"
             /\ spans'[1]._cache = spans[1]._cache]_vars

\* set was called on a completed span that holds attributes and has values
\* in its read cache
C26_Witness ==
  /\ spans[1].variant = "Span"
  /\ lastOp.op = "registry.set" /\ lastOp.res = "threw"
  /\ lastOp.arg[1] = "k"
  /\ MapHas(spans[1]._span.attributes, "k")
  /\ MapHas(spans[1]._cache, "k")
  /\ MapValue(spans[1]._cache, "k") # lastOp.arg[2]

\* C27: the first end of a span that has a parent changes nothing but that
\* span: the buffer with every trace info and span set, the id mapping, the
\* exported traces and the names of all spans stay as they were
C27_ChildEndDoesNothingFurther ==
  [][(/\ lastOp'.op = "end"
      /\ HasParent(spans[lastOp'.span])
      /\ ~spans[lastOp'.span].ended
      /\ spans'[lastOp'.span].ended) =>
       /\ traces' = traces
       /\ otelIdToMlflowTraceId' = otelIdToMlflowTraceId
       /\ exported' = exported
       /\ expiredLog' = expiredLog
       /\ \A x \in DOMAIN spans :
             /\ spans'[x].name = spans[x].name
             /\ x # lastOp'.span => spans'[x] = spans[x]]_vars

\* a child with the name of its root span ended while their trace was
\* buffered, and the trace is still in progress with both spans
C27_Witness ==
  /\ lastOp.op = "end" /\ lastOp.res = "child"
  /\ spans[lastOp.span].ended
  /\ lastOp.trace \in DOMAIN traces
  /\ traces[lastOp.trace].v.info.state = "IN_PROGRESS"
  /\ Len(traces[lastOp.trace].v.spanDict) = 2
  /\ \A x \in DOMAIN spans : spans[x].name = spans[lastOp.span].name

\* C28: startSpan under a parent whose underlying trace id has no mapping
\* returns a NoOpSpan and changes nothing: no entry, no mapping, no span
C28_ChildOfUnmappedTraceIsDropped ==
  [][(/\ lastOp'.op = "startSpan"
      /\ lastOp'.otel \in UsedOtelIds
      /\ ~MapHas(otelIdToMlflowTraceId, lastOp'.otel)) =>
       /\ lastOp'.res = "NoOpSpan:skipped"
       /\ UNCHANGED <<clock, traces, otelIdToMlflowTraceId, spans, exported,
                      registered, expiredLog>>]_vars

\* a span was started under a root span whose trace had been exported, and
\* was dropped
C28_Witness ==
  /\ lastOp.op = "startSpan" /\ lastOp.res = "NoOpSpan:skipped"
  /\ \E i \in DOMAIN exported : \E x \in DOMAIN spans :
        /\ spans[x].otel = lastOp.otel
        /\ exported[i].info.traceId = spans[x].traceId
  /\ ~MapHas(otelIdToMlflowTraceId, lastOp.otel)

\* C29: span names change only in the step that first ends a root span whose
\* trace is buffered; the step renames the spans of that trace, all together
\* as deduplicateSpanNamesInPlace does, and leaves the trace no longer
\* buffered; an export is always such a step
C29_DedupOnceAtRootEnd ==
  [][LET r == lastOp'.span
         Renamed(ids) ==
           \A x \in DOMAIN spans :
              spans'[x].name = deduplicateSpanNamesInPlace(ids, spans)[x].name
     IN /\ (\E x \in DOMAIN spans : spans'[x].name # spans[x].name) =>
             /\ lastOp'.op = "end"
             /\ ~HasParent(spans[r])
             /\ ~spans[r].ended /\ spans'[r].ended
             /\ spans[r].traceId \in DOMAIN traces
             /\ spans[r].traceId \notin DOMAIN traces'
             /\ Renamed(traces[spans[r].traceId].v.spanDict)
        /\ Exports =>
             /\ lastOp'.op = "end"
             /\ Renamed(traces[spans[r].traceId].v.spanDict)]_vars

\* a trace was exported whose root span and child had the same name and now
\* have the names with the suffixes 1 and 2, the child having ended first
C29_Witness ==
  /\ lastOp.op = "end" /\ lastOp.res = "exported"
  /\ \E i \in DOMAIN exported :
        /\ Len(exported[i].spans) = 2
        /\ LET x == exported[i].spans[1]
               y == exported[i].spans[2]
           IN /\ spans[x].name = Append(spans[x].call.name, 1)
              /\ spans[y].name = Append(spans[x].call.name, 2)
              /\ spans[y].ended

\* C30: every mapping of an underlying trace id points to a trace id that is
\* buffered, and every buffered trace id is the target of exactly one mapping
C30_MappingAndBufferConsistent ==
  /\ \A o \in MapKeys(otelIdToMlflowTraceId) :
        MapValue(otelIdToMlflowTraceId, o) \in DOMAIN traces
  /\ \A t \in DOMAIN traces :
        Cardinality({o \in MapKeys(otelIdToMlflowTraceId) :
                       MapValue(otelIdToMlflowTraceId, o) = t}) = 1

\* the sweep has taken an expired trace and its mapping away while a span of
\* it is still held, and nothing is buffered or mapped
C30_Witness ==
  /\ lastOp.op = "sweep"
  /\ expiredLog # {}
  /\ traces = <<>>
  /\ otelIdToMlflowTraceId = <<>>
  /\ \E x \in DOMAIN spans : ~spans[x].ended /\ spans[x].traceId \in expiredLog

\* C31 as stated: the start of a span without a parent registers a trace
\* under the trace id made of the prefix and the underlying trace id, with
\* state IN_PROGRESS, duration 0, the span's start time as request time and
\* no span but the one that starts, maps the underlying id to the trace id
\* and stamps the trace id on the span; different underlying ids give
\* different trace ids
C31_RootStartRegistersTrace ==
  [][(lastOp'.op = "startSpan" /\ lastOp'.otel \notin UsedOtelIds) =>
       LET o == lastOp'.otel
           t == generateTraceId(o)
       IN /\ t = <<TRACE_ID_PREFIX, o>>
          /\ \A p, q \in OtelIds :
                generateTraceId(p) = generateTraceId(q) => p = q
          /\ t \in DOMAIN traces'
          /\ traces'[t].v.info.traceId = t
          /\ traces'[t].v.info.state = "IN_PROGRESS"
          /\ traces'[t].v.info.executionDuration = 0
          /\ traces'[t].v.info.requestTime = Now
          /\ MapHas(otelIdToMlflowTraceId', o)
          /\ MapValue(otelIdToMlflowTraceId', o) = t
          /\ lastOp'.span \in DOMAIN spans'
          /\ spans'[lastOp'.span].traceId = t
          /\ HrTimeToMs(spans'[lastOp'.span].startTime) = Now
          /\ traces'[t].v.spanDict = <<lastOp'.span>>]_vars

\* C32 as stated: registerTrace for a trace id that is already buffered
\* overwrites the entry: getTrace then returns the new trace info with an
\* empty span set, no span registered under the old entry is reachable, and
\* the mapping from the underlying id to the trace id exists
C32_RegisterTraceOverwrites ==
  [][(lastOp'.op = "registerTrace" /\ lastOp'.trace \in DOMAIN traces) =>
       LET t == lastOp'.trace
           g == getTrace(traces', otelIdToMlflowTraceId', t, Now)
       IN /\ g.found
          /\ g.val = NewTrace(RegistryTraceInfo(t))
          /\ g.val.spanDict = <<>>
          /\ traces'[t].t = Now + ttlSeconds * MsPerSecond
          /\ MapHas(otelIdToMlflowTraceId', lastOp'.otel)
          /\ MapValue(otelIdToMlflowTraceId', lastOp'.otel) = t]_vars

\* C33: the read cache of a completed span never holds more than
\* cacheMaxSize (128) entries; a read puts its key last and leaves the order
\* of the other entries as it was, so the entries are kept in the order of
\* their last read; a read of a key that is not cached, with the cache full,
\* drops exactly the first entry, the one read least recently, and any other
\* read drops none; and every read returns, and every entry holds, what the
\* uncached get returns for the key
C33_CacheBoundedLruAndTransparent ==
  [][(spans[1].variant = "Span" /\ lastOp'.op = "getAttribute") =>
       LET key == lastOp'.arg
           old == spans[1]._cache
           new == spans'[1]._cache
           Without(c) == SelectSeq(c, LAMBDA e : e[1] # key)
       IN /\ Len(new) <= cacheMaxSize
          /\ lastOp'.res = RegistryGet(spans[1]._span, key)
          /\ \A i \in DOMAIN new :
                new[i][2] = RegistryGet(spans'[1]._span, new[i][1])
          /\ \A i, j \in DOMAIN new : new[i][1] = new[j][1] => i = j
          /\ new # <<>> /\ new[Len(new)][1] = key
          /\ Without(new) =
               IF ~MapHas(old, key) /\ Len(old) >= cacheMaxSize
                 THEN Tail(old)
                 ELSE Without(old)]_vars

\* a full cache after the read of a stored attribute: the key read is the
\* last entry, a key read before it is the first, and the read returned the
\* parsed value
C33_Witness ==
  /\ spans[1].variant = "Span"
  /\ lastOp.op = "getAttribute"
  /\ lastOp.arg = "k"
  /\ lastOp.res = JString("123")
  /\ Len(spans[1]._cache) = cacheMaxSize
  /\ spans[1]._cache[1][1] = "j"
  /\ ~MapHas(spans[1]._cache, TRACE_ID)

\* C34: getAttribute of a live or completed span always returns a value: for
\* a stored string that is not JSON text the string itself, for a stored
\* value that is not a string the stored value, and undefined for a key that
\* is not stored
C34_GetFallsBackToStoredValue ==
  [][(spans[1].variant \in {"LiveSpan", "Span"} /\ lastOp'.op = "getAttribute") =>
       LET stored == Property(spans[1]._span.attributes, lastOp'.arg)
       IN /\ lastOp'.res \in JsonUniverse \cup {JUndefined, stored}
          /\ (stored[1] = "string" /\ ~JSONparses(stored[2])) =>
                lastOp'.res = stored
          /\ stored[1] # "string" => lastOp'.res = stored
          /\ ~MapHas(spans[1]._span.attributes, lastOp'.arg) =>
                lastOp'.res = JUndefined]_vars

\* the attribute k holds the string hi, which is no JSON text, and the read
\* of k returned that string
C34_Witness ==
  /\ spans[1].variant \in {"LiveSpan", "Span"}
  /\ lastOp.op = "getAttribute"
  /\ lastOp.arg = "k"
  /\ Property(spans[1]._span.attributes, "k") = JString("hi")
  /\ lastOp.res = JString("hi")

\* C35 as stated: after deduplicateSpanNamesInPlace has run over the spans of
\* a trace, no two of them have the same name, whatever the names were
C35_NamesDistinctAfterDedup ==
  [][lastOp'.op = "deduplicate" =>
       \A i, j \in DOMAIN spans' :
          spans'[i].name = spans'[j].name => i = j]_vars

\* C36 as stated: a span that was made for trace id tr-1, and is buffered
\* and exported under it, reports the trace id tr-1 whatever attributes the
\* application has set on it since
C36_SpanReportsItsTraceId ==
  spans[1].variant = "LiveSpan" => Getters(spans[1]).traceId = JString("tr-1")

\* C37: a step leaves every buffered trace other than the one it works on
\* as it was (trace info, span set, time to live, the spans themselves and
\* the id mapping), unless that trace is itself removed by the sweep because
\* its own time to live has passed; and the end of a root span hands exactly
\* one trace to the backend, the trace of that span with spans of that trace
\* only
C37_TracesAreIsolated ==
  [][/\ \A t \in DOMAIN traces :
          (t # lastOp'.trace
             /\ ~(lastOp'.op = "sweep" /\ Overdue(traces[t], Now))) =>
            /\ t \in DOMAIN traces'
            /\ traces'[t] = traces[t]
            /\ \A i \in DOMAIN traces[t].v.spanDict :
                  spans'[traces[t].v.spanDict[i]] = spans[traces[t].v.spanDict[i]]
            /\ \A o \in OtelIds :
                  /\ (MapHas(otelIdToMlflowTraceId, o)
                        /\ MapValue(otelIdToMlflowTraceId, o) = t) =>
                       (MapHas(otelIdToMlflowTraceId', o)
                          /\ MapValue(otelIdToMlflowTraceId', o) = t)
                  /\ (MapHas(otelIdToMlflowTraceId', o)
                        /\ MapValue(otelIdToMlflowTraceId', o) = t) =>
                       MapHas(otelIdToMlflowTraceId, o)
     /\ (lastOp'.op = "end" /\ lastOp'.res = "exported") =>
          /\ Len(exported') = Len(exported) + 1
          /\ SubSeq(exported', 1, Len(exported)) = exported
          /\ exported'[Len(exported')].info.traceId = lastOp'.trace
          /\ \A i \in DOMAIN exported'[Len(exported')].spans :
                spans'[exported'[Len(exported')].spans[i]].traceId = lastOp'.trace
     /\ lastOp'.op # "end" => exported' = exported]_vars

\* the root span of one trace has ended and its trace was exported while
\* another trace is buffered, with its span and its mapping
C37_Witness ==
  /\ lastOp.op = "end"
  /\ lastOp.res = "exported"
  /\ \E t \in DOMAIN traces :
        /\ t # lastOp.trace
        /\ traces[t].v.spanDict # <<>>
        /\ t \in MapValues(otelIdToMlflowTraceId)
        /\ Len(exported[Len(exported)].spans) = 1

====
